---------------------------- MODULE Spec2Model ----------------------------
(***************************************************************************)
(* One pass of SmartsheetWriterNode.execute (nodes/writer.py): the sheet   *)
(* is fetched, optionally cleared, the input table is reconciled against   *)
(* the sheet by the reference column, and the update and insert batches    *)
(* are built and issued.  Every remote call is one step; it either         *)
(* returns or raises.                                                      *)
(***************************************************************************)
EXTENDS Integers, Sequences, FiniteSets, TLC

(***************************************************************************)
(* Bounds of the model.                                                    *)
(***************************************************************************)
MaxInputRows == 2
MaxRemoteRows == 2

(***************************************************************************)
(* Scalars.  A value is null (None / NaN), a bool, an int, a float (kept   *)
(* in tenths, so 2.5 is t = 25) or a str.                                  *)
(***************************************************************************)
Null == [k |-> "null", n |-> 0, s |-> ""]
BoolV(b) == [k |-> "bool", n |-> IF b THEN 1 ELSE 0, s |-> ""]
IntV(i) == [k |-> "int", n |-> i, s |-> ""]
FloatV(t) == [k |-> "float", n |-> t, s |-> ""]
StrV(str) == [k |-> "str", n |-> 0, s |-> str]

\* The strings of the model for which Python's int(str) succeeds, with its result.
IntLiterals == [str \in {"1", "20"} |-> IF str = "1" THEN 1 ELSE 20]

IsNumeric(v) == v.k \in {"bool", "int", "float"}
\* The numeric value in tenths (True is 1, False is 0).
Tenths(v) == IF v.k = "float" THEN v.n ELSE 10 * v.n

\* Python's ==, as `in` on a list and dict keys apply it.
PyEq(a, b) ==
    IF IsNumeric(a) /\ IsNumeric(b) THEN Tenths(a) = Tenths(b)
    ELSE IF a.k = "str" /\ b.k = "str" THEN a.s = b.s
    ELSE FALSE

\* pd.isna(pd_value)
IsNa(v) == v.k = "null"

\* bool(pd_value)
PyBool(v) == IF v.k = "str" THEN v.s # "" ELSE v.n # 0

\* int(pd_value): [ok, n]; ok is FALSE where int() raises.
PyInt(v) ==
    CASE v.k = "str" ->
           IF v.s \in DOMAIN IntLiterals
           THEN [ok |-> TRUE, n |-> IntLiterals[v.s]]
           ELSE [ok |-> FALSE, n |-> 0]
      [] v.k = "float" ->
           [ok |-> TRUE, n |-> IF v.n >= 0 THEN v.n \div 10 ELSE -((-v.n) \div 10)]
      [] OTHER -> [ok |-> TRUE, n |-> v.n]

\* float(pd_value) in tenths, for a value int() accepted.
PyFloat(v) ==
    CASE v.k = "str" -> 10 * IntLiterals[v.s]
      [] v.k = "float" -> v.n
      [] OTHER -> 10 * v.n

\* get_smartsheet_cell_value(pd_value, col_type).  int() raises only for a
\* str that is no integer literal, and str() of a str is the str itself.
get_smartsheet_cell_value(pd_value, col_type) ==
    IF IsNa(pd_value) THEN StrV("")
    ELSE IF col_type = "CHECKBOX" THEN BoolV(PyBool(pd_value))
    ELSE IF ~PyInt(pd_value).ok THEN pd_value
    ELSE IF 10 * PyInt(pd_value).n = PyFloat(pd_value)
         THEN IntV(PyInt(pd_value).n)
         ELSE FloatV(PyFloat(pd_value))

(***************************************************************************)
(* Configuration.                                                          *)
(***************************************************************************)
referenceColumn == "ref"
removeOldRefs == FALSE
page_size == 300

(***************************************************************************)
(* The inputs of a pass: the input table and the remote sheet.             *)
(***************************************************************************)
KeyValues == {Null, StrV("A"), StrV("1")}
XValues == {Null, FloatV(25)}

\* The values an input column may hold.
InputDomain(title) ==
    CASE title = "ref" -> KeyValues
      [] title = "x" -> XValues
      [] OTHER -> {IntV(7)}

InputColumnSets == {{"ref", "x", "z"}, {"ref"}, {"x"}}

TablesOver(cols, maxRows) ==
    UNION {[1..n -> {r \in [cols -> UNION {InputDomain(t) : t \in cols}] :
                        \A t \in cols : r[t] \in InputDomain(t)}]
           : n \in 0..maxRows}

InputTables ==
    UNION {{[columns |-> cols, rows |-> rs] : rs \in TablesOver(cols, MaxInputRows)}
           : cols \in InputColumnSets}

Column(id, title, type) == [id |-> id, title |-> title, type |-> type]

\* Column layouts of the remote sheet (titles are unique within a sheet).
Layouts ==
    { << Column(101, "ref", "TEXT_NUMBER"), Column(102, "x", "TEXT_NUMBER"),
         Column(103, "y", "TEXT_NUMBER") >>,
      << Column(202, "x", "CHECKBOX"), Column(201, "ref", "TEXT_NUMBER") >>,
      << Column(302, "x", "TEXT_NUMBER") >> }

Cell(column_id, value) == [column_id |-> column_id, value |-> value]

\* A remote row: one cell per column of the sheet, in column order; the
\* reference cell holds `key`, the other cells are empty.
RemoteRow(layout, id, key) ==
    [id |-> id,
     cells |-> [i \in 1..Len(layout) |->
                  Cell(layout[i].id,
                       IF layout[i].title = referenceColumn THEN key ELSE Null)]]

RemoteKeys(layout) ==
    IF \E i \in 1..Len(layout) : layout[i].title = referenceColumn
    THEN KeyValues ELSE {Null}

SmallSheets ==
    UNION {{[columns |-> layout,
             rows |-> [i \in 1..n |-> RemoteRow(layout, i, keys[i])]]
            : keys \in [1..n -> RemoteKeys(layout)]}
           : <<layout, n>> \in Layouts \X (0..MaxRemoteRows)}

\* Sheets longer than one delete page, of blank rows.
BulkSizes == {page_size, page_size + 1, 2 * page_size + 1}
BulkLayout == << Column(101, "ref", "TEXT_NUMBER"), Column(102, "x", "TEXT_NUMBER") >>
BulkSheets ==
    {[columns |-> BulkLayout,
      rows |-> [i \in 1..n |-> RemoteRow(BulkLayout, i, Null)]] : n \in BulkSizes}
BulkInputs ==
    {[columns |-> {"ref", "x"}, rows |-> rs] : rs \in TablesOver({"ref", "x"}, 1)}


(***************************************************************************)
(* State of a pass.                                                        *)
(***************************************************************************)
VARIABLES
    clearFirst,               \* parameter "Clear sheet first"
    addMissingRefs,           \* parameter "Add new"
    input,                    \* input_pandas: [columns, rows]
    store,                    \* the sheet as the remote service holds it
    sheet,                    \* the snapshot get_sheet returned last
    row_ids,                  \* ids of the rows to delete
    chunks,                   \* row_ids cut in pages
    ci,                       \* position of the delete loop in chunks
    output_ref_no_match,
    output_ref_to_be_synced,  \* dict as a list of [ref, rowId], in insertion order
    output_data_to_be_synced, \* dict rowId -> row, as a function
    output_ref_missing,
    updated_rows,
    new_rows,
    calls,                    \* the mutation calls issued to the service, in order
    pc,
    err

vars == << clearFirst, addMissingRefs, input, store, sheet, row_ids, chunks, ci,
           output_ref_no_match, output_ref_to_be_synced, output_data_to_be_synced,
           output_ref_missing, updated_rows, new_rows, calls, pc, err >>

NoSheet == [columns |-> << >>, rows |-> << >>]

Init ==
    /\ clearFirst \in BOOLEAN
    /\ addMissingRefs \in BOOLEAN
    /\ \/ input \in InputTables /\ store \in SmallSheets
       \/ input \in BulkInputs /\ store \in BulkSheets
    /\ sheet = NoSheet
    /\ row_ids = << >>
    /\ chunks = << >>
    /\ ci = 1
    /\ output_ref_no_match = << >>
    /\ output_ref_to_be_synced = << >>
    /\ output_data_to_be_synced = << >>
    /\ output_ref_missing = << >>
    /\ updated_rows = << >>
    /\ new_rows = << >>
    /\ calls = << >>
    /\ pc = "start"
    /\ err = "none"

(***************************************************************************)
(* Helpers of execute.                                                     *)
(***************************************************************************)
Min(a, b) == IF a <= b THEN a ELSE b

\* [r.id for r in sheet.rows]
RowIds(sh) == [i \in 1..Len(sh.rows) |-> sh.rows[i].id]

\* Pages that run one id past their end: row_ids[i : i + page_size + 1].
PagesOverlapping(ids) ==
    [j \in 1..((Len(ids) + page_size - 1) \div page_size) |->
        SubSeq(ids, (j - 1) * page_size + 1, Min(j * page_size + 1, Len(ids)))]

\* [row_ids[i : i + page_size] for i in range(0, len(row_ids), page_size)]
Pages(ids) ==
    [j \in 1..((Len(ids) + page_size - 1) \div page_size) |->
        SubSeq(ids, (j - 1) * page_size + 1, Min(j * page_size, Len(ids)))]

\* input_columns: the titles of the input table
input_columns == input.columns

Titles(sh) == {sh.columns[i].title : i \in 1..Len(sh.columns)}
ColumnIds(sh) == {sh.columns[i].id : i \in 1..Len(sh.columns)}

\* output_columns: {c.title: c.id for c in sheet.columns} (the last column of a title wins)
output_columns(sh) ==
    [t \in Titles(sh) |->
        sh.columns[CHOOSE i \in 1..Len(sh.columns) :
                      /\ sh.columns[i].title = t
                      /\ \A j \in (i + 1)..Len(sh.columns) : sh.columns[j].title # t].id]

\* output_columns_name_by_id: {v: k for k, v in output_columns.items()}
output_columns_name_by_id(sh) ==
    [id \in {output_columns(sh)[t] : t \in Titles(sh)} |->
        CHOOSE t \in Titles(sh) : output_columns(sh)[t] = id]

\* columns_type: {c.id: c.type for c in sheet.columns}
columns_type(sh) ==
    [id \in ColumnIds(sh) |->
        sh.columns[CHOOSE i \in 1..Len(sh.columns) :
                      /\ sh.columns[i].id = id
                      /\ \A j \in (i + 1)..Len(sh.columns) : sh.columns[j].id # id].type]

ref_column_id(sh) == output_columns(sh)[referenceColumn]

\* input_references: [r for r in input_pandas[self.referenceColumn]]
input_references == [i \in 1..Len(input.rows) |-> input.rows[i][referenceColumn]]

\* value in list
InList(v, list) == \E i \in 1..Len(list) : PyEq(v, list[i])

\* key in dict
InDict(key, d) == \E i \in 1..Len(d) : PyEq(key, d[i].ref)

\* A key already present keeps its first row id.
DictSetFirst(d, key, rowId) ==
    IF InDict(key, d) THEN d ELSE Append(d, [ref |-> key, rowId |-> rowId])

\* dict[key] = rowId: a key already present keeps its place
DictSet(d, key, rowId) ==
    IF InDict(key, d)
    THEN [i \in 1..Len(d) |-> IF PyEq(key, d[i].ref) THEN [d[i] EXCEPT !.rowId = rowId] ELSE d[i]]
    ELSE Append(d, [ref |-> key, rowId |-> rowId])

(***************************************************************************)
(* Reconciliation (the loop over sheet.rows and their cells).              *)
(***************************************************************************)
\* One cell of a row, on the accumulated (no_match, to_be_synced, data).
ScanCell(acc, row, cell, refs, refId) ==
    IF cell.value = Null \/ cell.column_id # refId THEN acc
    ELSE IF InList(cell.value, refs)
    THEN [acc EXCEPT
            !.synced = DictSet(acc.synced, cell.value, row.id),
            !.data = [id \in DOMAIN acc.data \cup {row.id} |->
                        IF id = row.id THEN row ELSE acc.data[id]]]
    ELSE [acc EXCEPT !.no_match = Append(acc.no_match, cell.value)]

RECURSIVE ScanCells(_, _, _, _, _)
ScanCells(acc, row, j, refs, refId) ==
    IF j > Len(row.cells) THEN acc
    ELSE ScanCells(ScanCell(acc, row, row.cells[j], refs, refId), row, j + 1, refs, refId)

\* row has a cell the loop acts on: a non-None cell of the reference column
HasRefCell(row, refId) ==
    \E j \in 1..Len(row.cells) :
        row.cells[j].value # Null /\ row.cells[j].column_id = refId

RECURSIVE ScanRows(_, _, _, _, _)
ScanRows(acc, rows, i, refs, refId) ==
    IF i > Len(rows) THEN acc
    ELSE ScanRows(ScanCells(acc, rows[i], 1, refs, refId), rows, i + 1, refs, refId)

\* The three collections after the loop over sheet.rows.  A row without a
\* non-None reference cell leaves them as they are, so the loop is run over
\* the other rows, in sheet order.
Scan(sh) ==
    ScanRows([no_match |-> << >>, synced |-> << >>, data |-> << >>],
             SelectSeq(sh.rows, LAMBDA row : HasRefCell(row, ref_column_id(sh))),
             1, input_references, ref_column_id(sh))

\* Every input reference counted as missing.
MissingAll(refs, synced) == refs

\* [ref for ref in input_references if ref not in output_ref_to_be_synced.keys()]
Missing(refs, synced) == SelectSeq(refs, LAMBDA ref : ~InDict(ref, synced))

(***************************************************************************)
(* indexed_input.loc[ref]: the positions of the input rows of that key.    *)
(* One position gives a Series, several give a DataFrame.                  *)
(***************************************************************************)
Loc(ref) ==
    {i \in 1..Len(input.rows) :
        \/ PyEq(input.rows[i][referenceColumn], ref)
        \/ IsNa(ref) /\ IsNa(input.rows[i][referenceColumn])}

\* The first row of the input, whatever the key.
SourceRowFirst(ref) == input.rows[1]

\* source_row, when it is a Series: the one row of that key
SourceRow(ref) == input.rows[CHOOSE i \in Loc(ref) : TRUE]

(***************************************************************************)
(* Update rows.                                                            *)
(***************************************************************************)
\* The input columns, the reference column not taken out.
synced_columns_all == input_columns

\* synced_columns = set(input_columns) - {self.referenceColumn}
synced_columns == input_columns \ {referenceColumn}

\* The cells of target_row that are written.
SyncedCells(sh, target_row) ==
    SelectSeq(target_row.cells,
              LAMBDA old_cell : output_columns_name_by_id(sh)[old_cell.column_id] \in synced_columns)

\* The update row of one (ref, rowId); a DataFrame as source_row makes
\* pd.isna(value) a Series, whose truth value raises ValueError.
UpdatedRow(sh, ref, rowId) ==
    LET cells == SyncedCells(sh, output_data_to_be_synced[rowId])
    IN  IF Len(cells) > 0 /\ Cardinality(Loc(ref)) > 1
        THEN [ok |-> FALSE, row |-> [id |-> rowId, cells |-> << >>]]
        ELSE [ok |-> TRUE,
              row |-> [id |-> rowId,
                       cells |-> [j \in 1..Len(cells) |->
                           Cell(cells[j].column_id,
                                get_smartsheet_cell_value(
                                    SourceRow(ref)[output_columns_name_by_id(sh)[cells[j].column_id]],
                                    columns_type(sh)[cells[j].column_id]))]]]

(***************************************************************************)
(* New rows.                                                               *)
(***************************************************************************)
\* The remote columns whose title is an input column, in output_columns order.
NewColumns(sh) ==
    SelectSeq(sh.columns,
              LAMBDA c : c.title \in input_columns /\ output_columns(sh)[c.title] = c.id)

\* The reference value read from the first row of the input, whatever the key.
NewValueFirstRow(ref, column_name) ==
    IF column_name # referenceColumn THEN SourceRow(ref)[column_name]
    ELSE input.rows[1][column_name]

\* value = source_row[column_name], or source_row.name (the index label of
\* the row found) for the reference column
NewValue(ref, column_name) ==
    IF column_name # referenceColumn THEN SourceRow(ref)[column_name]
    ELSE SourceRow(ref)[referenceColumn]

\* The new row of one missing ref; with a DataFrame as source_row the first
\* cell raises (ValueError from pd.isna, or AttributeError from .name).
NewRow(sh, ref) ==
    LET cols == NewColumns(sh)
    IN  IF Len(cols) > 0 /\ Cardinality(Loc(ref)) > 1
        THEN [ok |-> FALSE, row |-> [to_bottom |-> TRUE, cells |-> << >>]]
        ELSE [ok |-> TRUE,
              row |-> [to_bottom |-> TRUE,
                       cells |-> [j \in 1..Len(cols) |->
                           Cell(cols[j].id,
                                get_smartsheet_cell_value(NewValue(ref, cols[j].title),
                                                          columns_type(sh)[cols[j].id]))]]]

(***************************************************************************)
(* The remote service: what a call that returns does to the sheet.         *)
(***************************************************************************)
Range(seq) == {seq[i] : i \in 1..Len(seq)}

ApplyDelete(st, ids) ==
    [st EXCEPT !.rows = SelectSeq(st.rows, LAMBDA r : r.id \notin Range(ids))]

ApplyUpdate(st, rows) ==
    [st EXCEPT !.rows =
        [i \in 1..Len(st.rows) |->
            [st.rows[i] EXCEPT !.cells =
                [j \in 1..Len(st.rows[i].cells) |->
                    LET old == st.rows[i].cells[j]
                        hit == {<<r, c>> \in (1..Len(rows)) \X (1..Len(st.columns)) :
                                   /\ rows[r].id = st.rows[i].id
                                   /\ c <= Len(rows[r].cells)
                                   /\ rows[r].cells[c].column_id = old.column_id}
                    IN  IF hit = {} THEN old
                        ELSE LET h == CHOOSE h \in hit : TRUE
                             IN  Cell(old.column_id, rows[h[1]].cells[h[2]].value)]]]]

MaxId(st) == IF st.rows = << >> THEN 0
             ELSE CHOOSE m \in Range(RowIds(st)) : \A o \in Range(RowIds(st)) : o <= m

ApplyAdd(st, rows) ==
    [st EXCEPT !.rows = st.rows \o
        [r \in 1..Len(rows) |->
            [id |-> MaxId(st) + r,
             cells |-> [j \in 1..Len(st.columns) |->
                 LET hit == {c \in 1..Len(rows[r].cells) :
                                rows[r].cells[c].column_id = st.columns[j].id}
                 IN  Cell(st.columns[j].id,
                          IF hit = {} THEN Null
                          ELSE rows[r].cells[CHOOSE c \in hit : TRUE].value)]]]]

Call(op, rows) == [op |-> op, rows |-> rows]

(***************************************************************************)
(* The steps of execute.                                                   *)
(***************************************************************************)
Fail(e) == pc' = "error" /\ err' = e

\* The sheet cleared whatever the parameter says.
ClearingAlways == TRUE

\* if self.clearFirst:
Clearing == clearFirst

\* The insert branch taken whatever the parameter says.
InsertAlways == TRUE

\* if self.addMissingRefs:
InsertEnabled == addMissingRefs

\* The batch issued even when it is empty.
NonEmptyAlways(rows) == TRUE

\* if len(updated_rows) > 0:  /  if len(new_rows) > 0:
NonEmpty(rows) == Len(rows) > 0

\* sheet = smart.Sheets.get_sheet(self.sheetId); if not sheet: raise
GetSheet ==
    /\ pc = "start"
    /\ \E found \in BOOLEAN :
         IF found
         THEN /\ sheet' = store
              /\ row_ids' = IF Clearing THEN RowIds(store) ELSE << >>
              /\ chunks' = IF Clearing THEN Pages(RowIds(store)) ELSE << >>
              /\ pc' = IF Clearing THEN "delete" ELSE "check"
              /\ err' = err
         ELSE /\ Fail("InvalidParametersError: Output sheet not found in Smartsheet")
              /\ UNCHANGED << sheet, row_ids, chunks >>
    /\ UNCHANGED << clearFirst, addMissingRefs, input, store, ci, output_ref_no_match,
                    output_ref_to_be_synced, output_data_to_be_synced,
                    output_ref_missing, updated_rows, new_rows, calls >>

\* smart.Sheets.delete_rows(self.sheetId, ids), for the next page
DeleteRows ==
    /\ pc = "delete"
    /\ ci <= Len(chunks)
    /\ calls' = Append(calls, Call("delete_rows", chunks[ci]))
    /\ \E returns \in BOOLEAN :
         IF returns
         THEN /\ store' = ApplyDelete(store, chunks[ci])
              /\ ci' = ci + 1
              /\ UNCHANGED << pc, err >>
         ELSE /\ Fail("RemoteError: delete_rows")
              /\ UNCHANGED << store, ci >>
    /\ UNCHANGED << clearFirst, addMissingRefs, input, sheet, row_ids, chunks,
                    output_ref_no_match, output_ref_to_be_synced,
                    output_data_to_be_synced, output_ref_missing, updated_rows, new_rows >>


\* sheet = smart.Sheets.get_sheet(self.sheetId), after the last page
Refetch ==
    /\ pc = "delete"
    /\ ci > Len(chunks)
    /\ \E returns \in BOOLEAN :
         IF returns
         THEN sheet' = store /\ pc' = "check" /\ err' = err
         ELSE Fail("RemoteError: get_sheet") /\ sheet' = sheet
    /\ UNCHANGED << clearFirst, addMissingRefs, input, store, row_ids, chunks, ci,
                    output_ref_no_match, output_ref_to_be_synced,
                    output_data_to_be_synced, output_ref_missing, updated_rows,
                    new_rows, calls >>

\* The two checks of the reference column.
CheckColumns ==
    /\ pc = "check"
    /\ IF referenceColumn \notin input_columns
       THEN Fail("InvalidParametersError: Reference column not found in input columns")
       ELSE IF referenceColumn \notin DOMAIN output_columns(sheet)
       THEN Fail("InvalidParametersError: Reference column not found in output columns")
       ELSE pc' = "reconcile" /\ err' = err
    /\ UNCHANGED << clearFirst, addMissingRefs, input, store, sheet, row_ids, chunks, ci,
                    output_ref_no_match, output_ref_to_be_synced,
                    output_data_to_be_synced, output_ref_missing, updated_rows,
                    new_rows, calls >>

\* The loop over sheet.rows, then output_ref_missing.
Reconcile ==
    /\ pc = "reconcile"
    /\ LET acc == Scan(sheet)
       IN  /\ output_ref_no_match' = acc.no_match
           /\ output_ref_to_be_synced' = acc.synced
           /\ output_data_to_be_synced' = acc.data
           /\ output_ref_missing' = Missing(input_references, acc.synced)
    /\ pc' = "build_updates"
    /\ UNCHANGED << clearFirst, addMissingRefs, input, store, sheet, row_ids, chunks, ci,
                    updated_rows, new_rows, calls, err >>

\* The loop over output_ref_to_be_synced.items(); it stops at the first raise.
BuildUpdates ==
    /\ pc = "build_updates"
    /\ LET built == [i \in 1..Len(output_ref_to_be_synced) |->
                        UpdatedRow(sheet, output_ref_to_be_synced[i].ref,
                                   output_ref_to_be_synced[i].rowId)]
       IN  IF \E i \in 1..Len(built) : ~built[i].ok
           THEN Fail("ValueError: truth value of a Series") /\ updated_rows' = updated_rows
           ELSE /\ updated_rows' = [i \in 1..Len(built) |-> built[i].row]
                /\ pc' = "update"
                /\ err' = err
    /\ UNCHANGED << clearFirst, addMissingRefs, input, store, sheet, row_ids, chunks, ci,
                    output_ref_no_match, output_ref_to_be_synced,
                    output_data_to_be_synced, output_ref_missing, new_rows, calls >>

\* if len(updated_rows) > 0: smart.Sheets.update_rows(self.sheetId, updated_rows)
UpdateRows ==
    /\ pc = "update"
    /\ IF NonEmpty(updated_rows)
       THEN /\ calls' = Append(calls, Call("update_rows", updated_rows))
            /\ \E returns \in BOOLEAN :
                 IF returns
                 THEN /\ store' = ApplyUpdate(store, updated_rows)
                      /\ pc' = "build_new"
                      /\ err' = err
                 ELSE Fail("RemoteError: update_rows") /\ store' = store
       ELSE /\ pc' = "build_new"
            /\ UNCHANGED << calls, store, err >>
    /\ UNCHANGED << clearFirst, addMissingRefs, input, sheet, row_ids, chunks, ci,
                    output_ref_no_match, output_ref_to_be_synced,
                    output_data_to_be_synced, output_ref_missing, updated_rows, new_rows >>

\* if self.addMissingRefs: the loop over output_ref_missing.  Whether
\* indexed_input.loc finds a null label is left open: it returns the row or
\* raises KeyError.
BuildNewRows ==
    /\ pc = "build_new"
    /\ IF InsertEnabled
       THEN \E nullFound \in BOOLEAN :
              LET built == [i \in 1..Len(output_ref_missing) |->
                               NewRow(sheet, output_ref_missing[i])]
              IN  IF \E i \in 1..Len(built) :
                        (IsNa(output_ref_missing[i]) /\ ~nullFound) \/ ~built[i].ok
                  THEN /\ Fail(IF \E i \in 1..Len(built) : ~built[i].ok
                               THEN "ValueError or AttributeError: DataFrame as source_row"
                               ELSE "KeyError: loc")
                       /\ new_rows' = new_rows
                  ELSE /\ new_rows' = [i \in 1..Len(built) |-> built[i].row]
                       /\ pc' = "add"
                       /\ err' = err
       ELSE /\ pc' = "done"
            /\ UNCHANGED << new_rows, err >>
    /\ UNCHANGED << clearFirst, addMissingRefs, input, store, sheet, row_ids, chunks, ci,
                    output_ref_no_match, output_ref_to_be_synced,
                    output_data_to_be_synced, output_ref_missing, updated_rows, calls >>

\* if len(new_rows) > 0: smart.Sheets.add_rows(self.sheetId, new_rows)
AddRows ==
    /\ pc = "add"
    /\ IF NonEmpty(new_rows)
       THEN /\ calls' = Append(calls, Call("add_rows", new_rows))
            /\ \E returns \in BOOLEAN :
                 IF returns
                 THEN /\ store' = ApplyAdd(store, new_rows)
                      /\ pc' = "done"
                      /\ err' = err
                 ELSE Fail("RemoteError: add_rows") /\ store' = store
       ELSE /\ pc' = "done"
            /\ UNCHANGED << calls, store, err >>
    /\ UNCHANGED << clearFirst, addMissingRefs, input, sheet, row_ids, chunks, ci,
                    output_ref_no_match, output_ref_to_be_synced,
                    output_data_to_be_synced, output_ref_missing, updated_rows, new_rows >>

Next ==
    \/ GetSheet
    \/ DeleteRows
    \/ Refetch
    \/ CheckColumns
    \/ Reconcile
    \/ BuildUpdates
    \/ UpdateRows
    \/ BuildNewRows
    \/ AddRows

Spec == Init /\ [][Next]_vars

(***************************************************************************)
(* Vocabulary of the properties.                                           *)
(***************************************************************************)
CallsOf(op) == SelectSeq(calls, LAMBDA c : c.op = op)
CallIndexes(op) == {i \in 1..Len(calls) : calls[i].op = op}

\* The pass has run the loop over sheet.rows and has not failed since.
Reconciled == pc \in {"build_updates", "update", "build_new", "add", "done"}

RefColumnErrors ==
    {"InvalidParametersError: Reference column not found in input columns",
     "InvalidParametersError: Reference column not found in output columns"}

\* The reference cell of a remote row (rows hold one cell per column).
RefCells(sh, row) ==
    {j \in 1..Len(row.cells) :
        /\ \E c \in 1..Len(sh.columns) :
              sh.columns[c].title = referenceColumn /\ sh.columns[c].id = row.cells[j].column_id
        /\ row.cells[j].value # Null}

\* K: the input keys.  R: the keys the remote snapshot holds.
InputKeySet == Range(input_references)
RemoteKeySeq(sh) ==
    [i \in 1..Len(sh.rows) |->
        IF RefCells(sh, sh.rows[i]) = {} THEN Null
        ELSE sh.rows[i].cells[CHOOSE j \in RefCells(sh, sh.rows[i]) : TRUE].value]
RemoteKeySet(sh) == Range(RemoteKeySeq(sh)) \ {Null}

DupInput ==
    \E i, j \in 1..Len(input.rows) :
        i # j /\ input_references[i] # Null /\ input_references[i] = input_references[j]
DupNullInput ==
    \E i, j \in 1..Len(input.rows) :
        i # j /\ input_references[i] = Null /\ input_references[j] = Null
\* Two remote rows hold the same key: more keyed rows than keys.
DupRemote(sh) ==
    LET keys == RemoteKeySeq(sh)
    IN  Len(SelectSeq(keys, LAMBDA key : key # Null)) # Cardinality(Range(keys) \ {Null})

SyncedKeys == {output_ref_to_be_synced[i].ref : i \in 1..Len(output_ref_to_be_synced)}

(***************************************************************************)
(* C1.  A missing reference column (in the input columns or in the remote  *)
(* columns) fails the pass with InvalidParametersError before any remote   *)
(* mutation call (delete_rows, update_rows, add_rows) has been issued.     *)
(***************************************************************************)
C1_ConfigErrorBeforeMutation ==
    (pc = "error" /\ err \in RefColumnErrors) => calls = << >>

(***************************************************************************)
(* C2.  Without duplicate keys on either side, the matched keys and the    *)
(* missing keys partition the input keys K, and the orphan list is R \ K.  *)
(***************************************************************************)
C2_Partition ==
    (Reconciled /\ ~DupInput /\ ~DupNullInput /\ ~DupRemote(sheet)) =>
        /\ SyncedKeys \cup Range(output_ref_missing) = InputKeySet
        /\ SyncedKeys \cap Range(output_ref_missing) = {}
        /\ Len(output_ref_to_be_synced) + Len(output_ref_missing) = Len(input.rows)
        /\ Range(output_ref_no_match) = RemoteKeySet(sheet) \ InputKeySet
        /\ Len(output_ref_no_match) = Cardinality(RemoteKeySet(sheet) \ InputKeySet)

C2_Witness ==
    /\ Reconciled /\ ~DupInput /\ ~DupNullInput /\ ~DupRemote(sheet)
    /\ output_ref_to_be_synced # << >>
    /\ output_ref_missing # << >>
    /\ output_ref_no_match # << >>

(***************************************************************************)
(* C3.  No row passed to update_rows holds a cell of the reference column. *)
(***************************************************************************)
C3_NoRefCellInUpdate ==
    \A i \in CallIndexes("update_rows") :
        \A r \in 1..Len(calls[i].rows) :
            \A c \in 1..Len(calls[i].rows[r].cells) :
                calls[i].rows[r].cells[c].column_id # ref_column_id(sheet)

C3_Witness ==
    \E i \in CallIndexes("update_rows") :
        \E r \in 1..Len(calls[i].rows) : Len(calls[i].rows[r].cells) > 0

(***************************************************************************)
(* C4.  A duplicate reference value, among the input rows or among the     *)
(* remote rows, ends the pass in an error: the pass neither completes nor  *)
(* issues an update_rows or add_rows call.                                 *)
(***************************************************************************)
C4_DuplicateIsError ==
    (Reconciled /\ (DupInput \/ DupRemote(sheet))) =>
        /\ pc # "done"
        /\ CallIndexes("update_rows") = {}
        /\ CallIndexes("add_rows") = {}

(***************************************************************************)
(* C5.  As claimed: every row passed to add_rows stands for one key of the *)
(* missing set, in order, and its reference cell holds that key unchanged. *)
(***************************************************************************)
RefCellsOfNew(row) ==
    {c \in 1..Len(row.cells) : row.cells[c].column_id = ref_column_id(sheet)}

C5_InsertKeyUnchanged ==
    \A i \in CallIndexes("add_rows") :
        /\ Len(calls[i].rows) = Len(output_ref_missing)
        /\ \A r \in 1..Len(calls[i].rows) :
              /\ Cardinality(RefCellsOfNew(calls[i].rows[r])) = 1
              /\ \A c \in RefCellsOfNew(calls[i].rows[r]) :
                    calls[i].rows[r].cells[c].value = output_ref_missing[r]

(***************************************************************************)
(* C5, amended.  Every row passed to add_rows stands for one key of the    *)
(* missing set, in order, and its reference cell holds the coercion of     *)
(* that key under the reference column's remote type                       *)
(* (get_smartsheet_cell_value), not a value of another field or row.       *)
(***************************************************************************)
C5_InsertKeyCoerced ==
    \A i \in CallIndexes("add_rows") :
        /\ Len(calls[i].rows) = Len(output_ref_missing)
        /\ \A r \in 1..Len(calls[i].rows) :
              /\ Cardinality(RefCellsOfNew(calls[i].rows[r])) = 1
              /\ \A c \in RefCellsOfNew(calls[i].rows[r]) :
                    calls[i].rows[r].cells[c].value =
                        get_smartsheet_cell_value(output_ref_missing[r],
                                                  columns_type(sheet)[ref_column_id(sheet)])

C5_Witness ==
    \E i \in CallIndexes("add_rows") :
        /\ Len(calls[i].rows) = 2
        /\ output_ref_missing[1] # output_ref_missing[2]
        /\ \E r \in 1..2 : \E c \in RefCellsOfNew(calls[i].rows[r]) :
              calls[i].rows[r].cells[c].value # output_ref_missing[r]

(***************************************************************************)
(* C6.  With addMissingRefs off no add_rows call is ever issued; with it   *)
(* on, a pass that completes has appended (to_bottom) one row for each     *)
(* input key absent from the remote sheet, and add_rows carries only those.*)
(***************************************************************************)
AbsentKeys ==
    LET remote == RemoteKeySet(sheet)
    IN  SelectSeq(input_references, LAMBDA key : key \notin remote)

C6_InsertOnlyIfEnabled ==
    /\ ~addMissingRefs => CallIndexes("add_rows") = {}
    /\ \A i \in CallIndexes("add_rows") :
          /\ Len(calls[i].rows) = Len(AbsentKeys)
          /\ \A r \in 1..Len(calls[i].rows) :
                /\ calls[i].rows[r].to_bottom
                /\ \E c \in 1..Len(calls[i].rows[r].cells) :
                      /\ calls[i].rows[r].cells[c].column_id = ref_column_id(sheet)
                      /\ calls[i].rows[r].cells[c].value =
                            get_smartsheet_cell_value(AbsentKeys[r],
                                                      columns_type(sheet)[ref_column_id(sheet)])
    /\ (pc = "done" /\ addMissingRefs /\ AbsentKeys # << >>) => CallIndexes("add_rows") # {}

C6_Witness ==
    /\ pc = "done"
    /\ addMissingRefs
    /\ CallIndexes("add_rows") # {}
    /\ CallIndexes("update_rows") # {}

(***************************************************************************)
(* C7.  Orphans are computed and left alone: removeOldRefs is off, the     *)
(* no-match list holds the remote keys absent from the input whatever the  *)
(* flags, and with clearFirst off no delete_rows is issued and no update   *)
(* row targets a remote row whose reference value is absent from the input.*)
(***************************************************************************)
OrphanRowIds(sh) ==
    LET keys == RemoteKeySeq(sh)
    IN  {sh.rows[i].id : i \in {j \in 1..Len(sh.rows) :
                                   keys[j] = Null \/ keys[j] \notin InputKeySet}}

OrphanKeys(sh) ==
    SelectSeq(RemoteKeySeq(sh), LAMBDA key : key # Null /\ key \notin InputKeySet)

C7_OrphansUntouched ==
    /\ ~removeOldRefs
    /\ Reconciled => output_ref_no_match = OrphanKeys(sheet)
    /\ ~clearFirst =>
          /\ CallIndexes("delete_rows") = {}
          /\ \A i \in CallIndexes("update_rows") :
                \A r \in 1..Len(calls[i].rows) :
                    calls[i].rows[r].id \notin OrphanRowIds(sheet)

C7_Witness ==
    /\ ~clearFirst
    /\ pc = "done"
    /\ output_ref_no_match # << >>
    /\ CallIndexes("update_rows") # {}

(***************************************************************************)
(* C8.  update_rows and add_rows are each issued at most once, update_rows *)
(* first, each with a non-empty batch (the rows just built); after         *)
(* update_rows raises, the pass is over and add_rows is never issued.      *)
(***************************************************************************)
C8_BatchOrder ==
    /\ Cardinality(CallIndexes("update_rows")) <= 1
    /\ Cardinality(CallIndexes("add_rows")) <= 1
    /\ \A i \in CallIndexes("update_rows") : \A j \in CallIndexes("add_rows") : i < j
    /\ \A i \in CallIndexes("update_rows") :
          Len(calls[i].rows) > 0 /\ calls[i].rows = updated_rows
    /\ \A i \in CallIndexes("add_rows") :
          Len(calls[i].rows) > 0 /\ calls[i].rows = new_rows
    /\ err = "RemoteError: update_rows" =>
          /\ pc = "error"
          /\ ~ENABLED Next
          /\ CallIndexes("add_rows") = {}

C8_Witness ==
    /\ err = "RemoteError: update_rows"
    /\ addMissingRefs
    /\ output_ref_missing # << >>

(***************************************************************************)
(* C9.  With clearFirst set, the ids of the first snapshot are passed to   *)
(* delete_rows once each, in order, in pages of at most page_size ids, all *)
(* before any update_rows or add_rows; the reconciliation runs on the      *)
(* snapshot fetched after the deletions, which is empty, so no update is   *)
(* issued and every input key is missing.                                  *)
(***************************************************************************)
RECURSIVE ConcatRows(_, _)
ConcatRows(cs, i) == IF i > Len(cs) THEN << >> ELSE cs[i].rows \o ConcatRows(cs, i + 1)

DeletedIds == ConcatRows(CallsOf("delete_rows"), 1)

C9_ClearFirst ==
    clearFirst =>
        /\ \A i \in CallIndexes("delete_rows") :
              /\ Len(calls[i].rows) >= 1
              /\ Len(calls[i].rows) <= page_size
              /\ \A j \in CallIndexes("update_rows") \cup CallIndexes("add_rows") : i < j
        /\ pc = "delete" =>
              /\ Len(DeletedIds) <= Len(sheet.rows)
              /\ DeletedIds = SubSeq(RowIds(sheet), 1, Len(DeletedIds))
              /\ ci > Len(chunks) => DeletedIds = RowIds(sheet)
        /\ (pc = "check" \/ Reconciled) =>
              /\ DeletedIds = row_ids
              /\ Cardinality(Range(DeletedIds)) = Len(DeletedIds)
              /\ sheet.rows = << >>
        /\ pc = "check" => sheet = store
        /\ CallIndexes("update_rows") = {}
        /\ Reconciled =>
              /\ output_ref_to_be_synced = << >>
              /\ output_ref_missing = input_references

C9_Witness ==
    /\ clearFirst
    /\ pc = "done"
    /\ Cardinality(CallIndexes("delete_rows")) = 3
    /\ CallIndexes("add_rows") # {}

(***************************************************************************)
(* C10.  The update row of a matched (key, rowId) carries the row id and   *)
(* one cell for each remote column whose title is an input column other    *)
(* than the reference column, and no other cell; each cell holds the       *)
(* coercion of the input record's value of that title under the column's   *)
(* remote type.                                                            *)
(***************************************************************************)
SharedColumns(sh) ==
    {c \in 1..Len(sh.columns) :
        sh.columns[c].title \in input_columns /\ sh.columns[c].title # referenceColumn}

C10_UpdateCells ==
    pc \in {"update", "build_new", "add", "done"} =>
        /\ Len(updated_rows) = Len(output_ref_to_be_synced)
        /\ \A i \in 1..Len(updated_rows) :
              LET u == updated_rows[i]
                  key == output_ref_to_be_synced[i].ref
              IN  /\ u.id = output_ref_to_be_synced[i].rowId
                  /\ Len(u.cells) = Cardinality(SharedColumns(sheet))
                  /\ {u.cells[c].column_id : c \in 1..Len(u.cells)} =
                        {sheet.columns[c].id : c \in SharedColumns(sheet)}
                  /\ \A c \in SharedColumns(sheet) :
                        \A k \in 1..Len(input.rows) :
                            input.rows[k][referenceColumn] = key =>
                                Cell(sheet.columns[c].id,
                                     get_smartsheet_cell_value(
                                         input.rows[k][sheet.columns[c].title],
                                         sheet.columns[c].type))
                                    \in Range(u.cells)

C10_Witness ==
    /\ pc = "done"
    /\ \E i \in CallIndexes("update_rows") :
          \E r \in 1..Len(calls[i].rows) :
              \E c \in 1..Len(calls[i].rows[r].cells) :
                  calls[i].rows[r].cells[c].value = FloatV(25)
    /\ Len(input.rows) = 2

(***************************************************************************)
(* C11.  When several remote rows hold the same reference value and that   *)
(* value is an input key, the last of them in row order wins: once the     *)
(* update rows are built there is exactly one for that key, it targets the *)
(* last row's id, and the earlier rows of the key are neither updated (in  *)
(* updated_rows or in an update_rows call) nor listed as orphans.          *)
(***************************************************************************)
\* The positions of the remote rows that hold `key`, in row order.
RowsOfKey(sh, key) ==
    LET keys == RemoteKeySeq(sh)
    IN  {j \in 1..Len(sh.rows) : keys[j] = key}

LastOf(S) == CHOOSE m \in S : \A o \in S : o <= m

\* The keys several remote rows hold that are also input keys.
SharedDupKeys(sh) ==
    {key \in RemoteKeySet(sh) \cap InputKeySet : Cardinality(RowsOfKey(sh, key)) > 1}

=============================================================================
